---- MODULE Spec2Model ----
(***************************************************************************)
(* The run orchestrator of the news summarizer / sentiment analyzer:       *)
(* the assistant managers of main.py, test.py and                          *)
(* news_sentiment_analyzer.py driving a remote assistant run to completion *)
(* (create session, append message, start job, poll, resolve callbacks,    *)
(* submit results, extract result), the remote execution service and the   *)
(* search service they talk to.                                            *)
(*                                                                         *)
(* The source is single-threaded: a manager method runs to its end before  *)
(* another method is called, and the wait loop blocks its caller.  One     *)
(* iteration of the wait loop (sleep, retrieve, dispatch) is one step; the *)
(* remote service moves between iterations.                                *)
(***************************************************************************)
EXTENDS Integers, Sequences, FiniteSets, TLC

\* ------------------------------------------------------------------ bounds
\* Total number of runs the remote service accepts in one behaviour.
MaxRuns == 2
\* Requires-action cycles the remote service opens in one behaviour.
MaxCycles == 2
\* Messages the callers append in one behaviour, over all threads.
MaxMsgs == 2
\* The items of a search answer a fetch called on its own is tried on.
MaxArticles == 2
\* statuses the wait loop retrieves in one run of main() taken as a function
MaxEvents == 3

Managers == {"m1", "m2"}
\* main.py and test.py hold the same manager but for prompt text, model name
\* and the extra header: "main" stands for both.
Apps == {"main", "sentiment"}
\* The topic of the user's message.
Topics == {"bitcoin"}
\* What the user may submit in the form's text field, as characters.
FormInputs == { <<>>, <<" ", " ">>, <<"\t", " ">>, <<"b", "t", "c">>, <<" ", "b", " ">> }

\* Python's None in a manager field holding an object with an id.
NoId == 0
\* Python's None in a field holding text.
NoText == [kind |-> "none"]
\* No function was called on its own yet.
NoCall == [fn |-> "none"]

\* ------------------------------------------------------- program constants
\* page_size = arguments.get("page_size", 10)
DefaultPageSize == 10
\* content[:200]
ContentPrefix == 200
\* pageSize=5 in the URL of main.py / test.py
MainPageSize == 5

VARIABLES
    app,            \* which of the three applications the process runs
    thread_id,      \* class attribute: the cached session id
    assistant_id,   \* class attribute: the cached assistant id
    constructed,    \* the manager instances constructed so far
    cachedAtInit,   \* per manager: the value of thread_id read by __init__
    assistant,      \* self.assistant (its id, or NoId)
    thread,         \* self.thread (its id, or NoId)
    run,            \* self.run (its id, or NoId)
    summary,        \* self.summary / self.sentiment_analysis
    pc,             \* "idle", or "waiting" inside the wait loop
    outcome,        \* "ok", or the exception a method call of the manager raised
    lastStatus,     \* run_status.status of the wait loop's last retrieve
    nAssistants,    \* remote: assistants created
    messages,       \* remote: per thread, its messages newest first
    runs,           \* remote: the runs, by id; calls are the tool calls of a
                    \* run's latest requires-action cycle, tool_outputs the
                    \* outputs submitted for them and not yet consumed
    resultCount,    \* remote: per tool call id, the results received for it
    fetched,        \* per run, the local fetches made for it: topic, page size
    step,           \* per manager, where the main() that owns it stands
    probe           \* the last call of a function made on its own: its
                    \* arguments and what it returned

vars == <<app, thread_id, assistant_id, constructed, cachedAtInit, assistant,
          thread, run, summary, pc, outcome, lastStatus, nAssistants,
          messages, runs, resultCount, fetched, step, probe>>

mgrVars == <<constructed, cachedAtInit, assistant, thread, run, summary, pc,
             outcome, lastStatus>>
classVars == <<thread_id, assistant_id>>
remoteVars == <<nAssistants, messages, runs, resultCount>>

\* ------------------------------------------------------------- helpers
Min(a, b) == IF a < b THEN a ELSE b

RunIds == 1..Len(runs)
\* Threads created by the remote service so far.
nThreads == Len(messages)
ThreadIds == 1..nThreads

Terminal == {"completed", "failed", "cancelled", "expired"}
Statuses == {"queued", "in_progress", "requires_action"} \cup Terminal

\* A variant in which test.py dispatches on another name than main.py.
KnownFunctionRenamedInTest(a) ==
    IF a = "sentiment" THEN "get_news_for_sentiment"
    ELSE IF a = "test" THEN "fetch_news" ELSE "get_news"

\* The function name each application dispatches on.
KnownFunction(a) == IF a = "sentiment" THEN "get_news_for_sentiment" ELSE "get_news"

\* f"summarize the news on this topic {instructions}?" and the sentiment prompt
UserContent(a, topic) ==
    [kind |-> IF a = "sentiment" THEN "analyze" ELSE "summarize", topic |-> topic]

\* The final text the remote assistant writes for run r: texts of different
\* runs differ.
OutputText(r) == [kind |-> "output", run |-> r]

\* ------------------------------------------------------ the search service
\* JSON values of a response body: null, a string, a string kept as the
\* sequence of its characters (the content field, which is sliced), an object,
\* a list.
Null == [t |-> "null"]
JStr(s) == [t |-> "str", v |-> s]
JChars(cs) == [t |-> "chars", v |-> cs]
JObj(o) == [t |-> "obj", v |-> o]
JList(xs) == [t |-> "list", v |-> xs]

\* How an f-string renders a value: None for null, the text otherwise.
Render(v) == IF v = Null THEN "None" ELSE v.v

\* The result of a Python call: a value, or the exception it raised.
Ok(v) == [exc |-> "none", val |-> v]
Raise(e) == [exc |-> e, val |-> <<>>]

ArticleKeys == {"source", "author", "title", "description", "url", "content"}

\* main.py / test.py: the body of the loop over articles, one article.
FormatArticle(article) ==
    IF ~ (ArticleKeys \subseteq DOMAIN article) THEN Raise("KeyError")
    ELSE IF article["source"].t # "obj" THEN Raise("TypeError")
    ELSE IF "name" \notin DOMAIN article["source"].v THEN Raise("KeyError")
    ELSE Ok([Title |-> Render(article["title"]),
             Author |-> Render(article["author"]),
             Source |-> Render(article["source"].v["name"]),
             Description |-> Render(article["description"]),
             URL |-> Render(article["url"])])

\* dict.get(key, default): the default only when the key is absent.
Get(d, key, default) == IF key \in DOMAIN d THEN d[key] ELSE default

\* s[:n] of a string kept as its characters.
Slice(cs, n) == SubSeq(cs, 1, Min(n, Len(cs)))

\* news_sentiment_analyzer.py: the body of the loop over articles, article i
\* (0-based, as enumerate counts).
FormatSentimentArticle(i, article) ==
    LET source == Get(article, "source", JObj(<<>>))
        content == Get(article, "content", JChars(<<"No content">>))
    IN  IF source.t # "obj" THEN Raise("AttributeError")
        ELSE IF content.t # "chars" THEN Raise("TypeError")
        ELSE Ok([Article |-> i + 1,
                 Title |-> Render(Get(article, "title", JStr("No title"))),
                 Source |-> Render(Get(source.v, "name", JStr("Unknown source"))),
                 Published |-> Render(Get(article, "publishedAt", JStr("Unknown date"))),
                 Description |-> Render(Get(article, "description", JStr("No description"))),
                 Content |-> Slice(content.v, ContentPrefix)])

\* The blocks of the first n articles, or the first exception of the loop.
RECURSIVE FormatAll(_, _, _)
FormatAll(a, articles, n) ==
    IF n = 0 THEN Ok(<<>>)
    ELSE LET before == FormatAll(a, articles, n - 1)
             this == IF a = "sentiment"
                     THEN FormatSentimentArticle(n - 1, articles[n])
                     ELSE FormatArticle(articles[n])
         IN  IF before.exc # "none" THEN before
             ELSE IF this.exc # "none" THEN this
             ELSE Ok(Append(before.val, this.val))

\* A variant that lets the transport error out of the fetch.
ReraiseTransportError == Raise("ConnectionError")

\* except requests.exceptions.RequestException: return []
OnTransportError == Ok(<<>>)

\* A variant that raises for a status other than 200.
RaiseForStatus == Raise("HTTPError")

\* The else branch of response.status_code == 200: return []
OnHttpError == Ok(<<>>)

\* main.py / test.py get_news(topic) on the search service's answer.
get_news(topic, response) ==
    IF response.kind = "transport" THEN OnTransportError
    ELSE IF response.code = 200
    THEN IF ~ ({"status", "totalResults", "articles"} \subseteq DOMAIN response.body)
         THEN Raise("KeyError")
         ELSE IF response.body["articles"].t # "list" THEN Raise("TypeError")
         ELSE FormatAll("main", response.body["articles"].v,
                        Len(response.body["articles"].v))
    ELSE OnHttpError

\* news_sentiment_analyzer.py get_news_for_sentiment(topic, page_size).
get_news_for_sentiment(topic, page_size, response) ==
    IF response.kind = "transport" THEN OnTransportError
    ELSE IF response.code = 200
    THEN LET articles == Get(response.body, "articles", JList(<<>>))
         IN  IF articles.t # "list" THEN Raise("TypeError")
             ELSE FormatAll("sentiment", articles.v, Len(articles.v))
    ELSE OnHttpError

\* Articles and answers the search service gives in the orchestrator's runs.
Article(title) ==
    [source |-> JObj([name |-> JStr("Wire")]), author |-> JStr("Ann"),
     title |-> JStr(title), description |-> JStr("text"),
     url |-> JStr("http://n/1"), content |-> JChars(<<"b", "o", "d", "y">>),
     publishedAt |-> JStr("2025")]

Http200(body) == [kind |-> "http", code |-> 200, body |-> body]

SearchResponses ==
    { [kind |-> "transport"],
      [kind |-> "http", code |-> 500],
      Http200([status |-> "ok", totalResults |-> 2,
               articles |-> JList(<<Article("one"),
                                    [Article("two") EXCEPT !.author = Null]>>)]),
      Http200([status |-> "error"]) }

\* A record without one of its keys.
Without(r, key) == [k \in DOMAIN r \ {key} |-> r[k]]

\* The items a 200 answer may hold: a complete one, and one with a field
\* null or absent.
ArticleVariants ==
    LET full == Article("one")
    IN  {full} \cup {[full EXCEPT ![k] = Null] :
                       k \in {"author", "description", "content", "source"}}
               \cup {Without(full, k) :
                       k \in {"author", "description", "content", "source", "publishedAt"}}
               \cup {[full EXCEPT !.source = JObj(<<>>)]}

\* The lists of at most n items.
RECURSIVE ArticleLists(_)
ArticleLists(n) ==
    IF n = 0 THEN {<<>>}
    ELSE ArticleLists(n - 1) \cup
         {Append(l, x) : l \in {k \in ArticleLists(n - 1) : Len(k) = n - 1},
                         x \in ArticleVariants}

\* The answers of the search service a fetch called on its own is tried on:
\* a transport error, a status other than 200, a 200 with the expected
\* structure and up to MaxArticles items, and a 200 whose body lacks a key
\* or holds null for the list.
FetchResponses ==
    LET good == {[status |-> "ok", totalResults |-> Len(l), articles |-> JList(l)] :
                    l \in ArticleLists(MaxArticles)}
        one == [status |-> "ok", totalResults |-> 1, articles |-> JList(<<Article("one")>>)]
        bad == {Without(one, k) : k \in DOMAIN one} \cup
               {[one EXCEPT !.articles = Null], [status |-> "error"]}
    IN  {[kind |-> "transport"]} \cup
        {[kind |-> "http", code |-> c] : c \in {404, 500}} \cup
        {Http200(b) : b \in good \cup bad}

\* ------------------------------------------------- callback resolution
\* The tool calls the remote assistant may ask for: the known function with
\* a topic, the known function with a topic and a page size, and a function
\* the application does not dispatch on.
CallShapes(a) ==
    { [name |-> KnownFunction(a), arguments |-> [topic |-> "bitcoin"]],
      [name |-> KnownFunction(a), arguments |-> [topic |-> "ai", page_size |-> 3]],
      [name |-> "get_weather", arguments |-> [topic |-> "bitcoin"]] }

\* The batches of tool calls of one requires-action cycle: one call, or two.
Batches(a) == [1..1 -> CallShapes(a)] \cup [1..2 -> CallShapes(a)]

\* The id of tool call i of cycle c of run r.
CallId(r, c, i) == <<r, c, i>>

\* The ids the remote service answers the creations with, when a script is
\* run as a function of the answers it gets.
AsstId == 1
ThrId == 1
RunId == 1

\* The tool calls of a requires-action answer, with the ids the remote
\* service gives them.
WithIds(batch) ==
    [i \in 1..Len(batch) |-> [id |-> CallId(RunId, 1, i), name |-> batch[i].name,
                              arguments |-> batch[i].arguments]]

\* The separator of "\n".join(articles).
Sep == [sep |-> "\n"]

RECURSIVE JoinLines(_, _)
JoinLines(blocks, n) ==
    IF n = 0 THEN <<>>
    ELSE IF n = 1 THEN <<blocks[1]>>
    ELSE JoinLines(blocks, n - 1) \o <<Sep, blocks[n]>>

\* A variant that keeps the first block only.
JoinFirstBlockOnly(a, blocks) == IF blocks = <<>> THEN <<>> ELSE <<blocks[1]>>

\* final_str += "".join(item) over the blocks (main.py, test.py);
\* "\n".join(articles) (news_sentiment_analyzer.py).
JoinOutput(a, blocks) ==
    IF a = "sentiment" THEN JoinLines(blocks, Len(blocks)) ELSE blocks

\* A variant that always fetches with the default page size.
PageSizeAlwaysDefault(a, arguments) ==
    IF a = "sentiment" THEN DefaultPageSize ELSE MainPageSize

\* The page size a resolved call fetches with.
PageSizeOf(a, arguments) ==
    IF a = "sentiment" THEN Get(arguments, "page_size", DefaultPageSize)
    ELSE MainPageSize

\* The fetch of one tool call of the known function.
FetchFor(a, arguments, response) ==
    IF a = "sentiment"
    THEN get_news_for_sentiment(arguments["topic"], PageSizeOf(a, arguments), response)
    ELSE get_news(arguments["topic"], response)

\* A variant that files every output under an id no tool call has.
ToolOutputUnderNoId(action, text) == [tool_call_id |-> <<0, 0, 0>>, output |-> text]

\* tools_outputs.append({"tool_call_id": action["id"], "output": final_str})
ToolOutput(action, text) == [tool_call_id |-> action.id, output |-> text]

\* The loop over required_actions["tool_calls"], up to call n: the outputs
\* collected, the fetches made, and the exception that ended it, if any.
RECURSIVE ResolveCalls(_, _, _, _)
ResolveCalls(a, calls, resps, n) ==
    IF n = 0 THEN [exc |-> "none", outputs |-> <<>>, fetches |-> <<>>]
    ELSE LET before == ResolveCalls(a, calls, resps, n - 1)
             action == calls[n]
         IN  IF before.exc # "none" THEN before
             ELSE IF action.name # KnownFunction(a)
             THEN [before EXCEPT !.exc = "ValueError"]
             ELSE IF "topic" \notin DOMAIN action.arguments
             THEN [before EXCEPT !.exc = "KeyError"]
             ELSE LET got == FetchFor(a, action.arguments, resps[n])
                      made == Append(before.fetches,
                                     [topic |-> action.arguments["topic"],
                                      page_size |-> PageSizeOf(a, action.arguments)])
                  IN  IF got.exc # "none"
                      THEN [before EXCEPT !.exc = got.exc, !.fetches = made]
                      ELSE [exc |-> "none",
                            outputs |-> Append(before.outputs,
                                               ToolOutput(action, JoinOutput(a, got.val))),
                            fetches |-> made]

\* A variant that passes over a function it does not know instead of raising.
SkipUnknownFunctions(a, calls, resps) ==
    LET known == SelectSeq(calls, LAMBDA c : c.name = KnownFunction(a))
    IN  ResolveCalls(a, known, resps, Len(known))

\* A variant that resolves the first tool call only and submits its output.
ResolveFirstCallOnly(a, calls, resps) == ResolveCalls(a, calls, resps, 1)

\* call_required_functions / call_sentiment_functions on the tool calls of a
\* requires-action status, the search service answering resps.
call_required_functions(a, calls, resps) == ResolveCalls(a, calls, resps, Len(calls))

\* ------------------------------------------------------------ the state
Init ==
    /\ app \in Apps
    /\ thread_id = NoId
    /\ assistant_id = NoId
    /\ constructed = {}
    /\ cachedAtInit = [m \in Managers |-> FALSE]
    /\ assistant = [m \in Managers |-> NoId]
    /\ thread = [m \in Managers |-> NoId]
    /\ run = [m \in Managers |-> NoId]
    /\ summary = [m \in Managers |-> NoText]
    /\ pc = [m \in Managers |-> "idle"]
    /\ outcome = [m \in Managers |-> "ok"]
    /\ lastStatus = [m \in Managers |-> "none"]
    /\ nAssistants = 0
    /\ messages = <<>>
    /\ runs = <<>>
    /\ resultCount = [id \in {} |-> 0]
    /\ fetched = <<>>
    /\ step = [m \in Managers |-> "start"]
    /\ probe = NoCall

\* No method call is in progress: the process is single-threaded.
Idle == \A m \in Managers : pc[m] = "idle"

\* A method of a constructed manager may be called.  An exception leaves the
\* method and main(): main.py and test.py do not catch it, and
\* news_sentiment_analyzer.py reports it and ends the submission, so the
\* instance is not used again.
Callable(m) == m \in constructed /\ Idle /\ outcome[m] = "ok"

\* ------------------------------------------------- the manager's methods
\* AssistantManager.__init__; instances are told apart by the order in which
\* they are constructed.
Construct(m) ==
    /\ m \notin constructed
    /\ m = "m1" \/ "m1" \in constructed
    /\ Idle
    /\ constructed' = constructed \cup {m}
    /\ cachedAtInit' = [cachedAtInit EXCEPT ![m] = (thread_id # NoId)]
    /\ assistant' = [assistant EXCEPT ![m] = assistant_id]
    /\ thread' = [thread EXCEPT ![m] = thread_id]
    /\ run' = [run EXCEPT ![m] = NoId]
    /\ summary' = [summary EXCEPT ![m] = NoText]
    /\ outcome' = [outcome EXCEPT ![m] = "ok"]
    /\ UNCHANGED <<app, probe, classVars, pc, lastStatus, remoteVars, fetched>>

\* create_assistant / create_sentiment_assistant
create_assistant(m) ==
    /\ Callable(m)
    /\ IF assistant[m] = NoId
       THEN /\ nAssistants' = nAssistants + 1
            /\ assistant_id' = nAssistants + 1
            /\ assistant' = [assistant EXCEPT ![m] = nAssistants + 1]
       ELSE UNCHANGED <<nAssistants, assistant_id, assistant>>
    /\ outcome' = [outcome EXCEPT ![m] = "ok"]
    /\ UNCHANGED <<app, probe, thread_id, constructed, cachedAtInit, thread, run,
                   summary, pc, lastStatus, messages, runs, resultCount, fetched>>

\* A variant of the guard that opens a session on every call.
NeedsThreadAlways(m) == TRUE

\* A variant of the guard that never opens a session.
NeedsThreadNever(m) == FALSE

\* The guard of create_thread: if not self.thread
NeedsThread(m) == thread[m] = NoId

\* create_thread
create_thread(m) ==
    /\ Callable(m)
    /\ IF NeedsThread(m)
       THEN /\ messages' = Append(messages, <<>>)
            /\ thread_id' = nThreads + 1
            /\ thread' = [thread EXCEPT ![m] = nThreads + 1]
       ELSE UNCHANGED <<messages, thread_id, thread>>
    /\ outcome' = [outcome EXCEPT ![m] = "ok"]
    /\ UNCHANGED <<app, probe, assistant_id, constructed, cachedAtInit, assistant, run,
                   summary, pc, lastStatus, nAssistants, runs, resultCount, fetched>>

\* Messages of a role in a thread's listing.
CountRole(listing, role) == Cardinality({i \in 1..Len(listing) : listing[i].role = role})

\* Messages of a role in the first n threads.
RECURSIVE CountAll(_, _)
CountAll(role, n) ==
    IF n = 0 THEN 0 ELSE CountAll(role, n - 1) + CountRole(messages[n], role)

\* add_message_to_thread(role, content), as main() calls it: role "user".
add_message_to_thread(m, topic) ==
    /\ Callable(m)
    /\ IF thread[m] # NoId
       THEN /\ CountAll("user", nThreads) < MaxMsgs
            /\ messages' = [messages EXCEPT ![thread[m]] =
                              <<[role |-> "user", text |-> UserContent(app, topic)]>> \o @]
       ELSE UNCHANGED messages
    /\ outcome' = [outcome EXCEPT ![m] = "ok"]
    /\ UNCHANGED <<app, probe, classVars, constructed, cachedAtInit, assistant, thread,
                   run, summary, pc, lastStatus, nAssistants, runs, resultCount,
                   fetched>>

\* A variant of the guard that starts a run whatever the manager holds.
MayStartRunAlways(m) == TRUE

\* The guard of run_assitant / run_assistant / run_sentiment_analysis.
MayStartRun(m) == thread[m] # NoId /\ assistant[m] # NoId

\* The runs of session t that have not reached a terminal status.
ActiveRuns(t) == {r \in RunIds : runs[r].thread = t /\ runs[r].status \notin Terminal}

\* run_assitant / run_assistant / run_sentiment_analysis: the method sends
\* runs.create whenever it has a thread and an assistant.  The remote service
\* creates the run; what it does with the request while another run of the
\* session is active is not in the program's hands: it creates the run all
\* the same, or it refuses and the call raises.
run_assistant(m) ==
    /\ Callable(m)
    /\ IF MayStartRun(m)
       THEN \/ /\ Len(runs) < MaxRuns
               /\ runs' = Append(runs, [thread |-> thread[m], assistant |-> assistant[m],
                                        status |-> "queued", cycle |-> 0,
                                        calls |-> <<>>, tool_outputs |-> <<>>])
               /\ fetched' = Append(fetched, <<>>)
               /\ run' = [run EXCEPT ![m] = Len(runs) + 1]
               /\ outcome' = [outcome EXCEPT ![m] = "ok"]
            \/ /\ ActiveRuns(thread[m]) # {}
               /\ outcome' = [outcome EXCEPT ![m] = "BadRequestError"]
               /\ UNCHANGED <<runs, fetched, run>>
       ELSE /\ outcome' = [outcome EXCEPT ![m] = "ok"]
            /\ UNCHANGED <<runs, fetched, run>>
    /\ UNCHANGED <<app, probe, classVars, constructed, cachedAtInit, assistant, thread,
                   summary, pc, lastStatus, nAssistants, messages, resultCount>>

\* A variant that reads the oldest message of the listing.
OldestMessage(listing) == listing[Len(listing)]

\* The message process_message reads from a listing: messages.data[0].
LatestMessage(listing) == listing[1]

\* A variant that adds the text it reads to the text already stored.
ExtractAccumulating(m) ==
    IF thread[m] = NoId THEN Ok(summary[m])
    ELSE IF messages[thread[m]] = <<>> THEN Raise("IndexError")
    ELSE Ok([kind |-> "joined", first |-> summary[m],
             then |-> messages[thread[m]][1].text])

\* process_message / process_sentiment_results: the text stored, or the
\* exception raised; the stored text is left as it is without a thread.
ExtractResult(m) ==
    IF thread[m] = NoId THEN Ok(summary[m])
    ELSE IF messages[thread[m]] = <<>> THEN Raise("IndexError")
    ELSE Ok(LatestMessage(messages[thread[m]]).text)

\* process_message / process_sentiment_results called by the caller.
process_message(m) ==
    /\ Callable(m)
    /\ LET got == ExtractResult(m)
       IN  /\ outcome' = [outcome EXCEPT ![m] = IF got.exc = "none" THEN "ok" ELSE got.exc]
           /\ summary' = [summary EXCEPT ![m] = IF got.exc = "none" THEN got.val ELSE @]
    /\ UNCHANGED <<app, probe, classVars, constructed, cachedAtInit, assistant, thread,
                   run, pc, lastStatus, remoteVars, fetched>>

\* get_summary / get_sentiment_analysis
get_summary(m) == summary[m]

\* --------------------------------------------------------- the wait loop
\* wait_for_run_completion / wait_for_completion /
\* wait_for_sentiment_completion is called: the loop is entered with a
\* thread and a run, and the call returns at once without.
wait_for_run_completion(m) ==
    /\ Callable(m)
    /\ IF thread[m] # NoId /\ run[m] # NoId
       THEN pc' = [pc EXCEPT ![m] = "waiting"]
       ELSE pc' = pc
    /\ outcome' = [outcome EXCEPT ![m] = "ok"]
    /\ lastStatus' = [lastStatus EXCEPT ![m] = "none"]
    /\ UNCHANGED <<app, probe, classVars, constructed, cachedAtInit, assistant, thread,
                   run, summary, remoteVars, fetched>>

\* A variant that gives up on a status that is neither completed nor
\* requires_action.
GiveUpOnOtherStatus(st) == "idle"

\* What the loop does after a status that is neither completed nor
\* requires_action: "waiting" goes round again.
AfterOtherStatus(st) == "waiting"

\* A variant that leaves the loop once the tool outputs were submitted.
ReturnAfterSubmit == "idle"

\* What the loop does after the tool outputs were submitted.
AfterSubmit == "waiting"

\* The results received per tool call id after a batch was submitted.
Received(counts, outputs) ==
    [id \in DOMAIN counts |->
        counts[id] + Cardinality({i \in 1..Len(outputs) : outputs[i].tool_call_id = id})]

\* One iteration: sleep, retrieve, status completed.
WaitCompleted(m) ==
    /\ pc[m] = "waiting"
    /\ runs[run[m]].status = "completed"
    /\ lastStatus' = [lastStatus EXCEPT ![m] = "completed"]
    /\ LET got == ExtractResult(m)
       IN  /\ outcome' = [outcome EXCEPT ![m] = IF got.exc = "none" THEN "ok" ELSE got.exc]
           /\ summary' = [summary EXCEPT ![m] = IF got.exc = "none" THEN got.val ELSE @]
    /\ pc' = [pc EXCEPT ![m] = "idle"]
    /\ UNCHANGED <<app, probe, classVars, constructed, cachedAtInit, assistant, thread,
                   run, remoteVars, fetched>>

\* One iteration: sleep, retrieve, status requires_action: the tool calls are
\* resolved and their outputs submitted in one call, or an exception leaves
\* the loop before anything is submitted.
WaitRequiresAction(m) ==
    /\ pc[m] = "waiting"
    /\ runs[run[m]].status = "requires_action"
    /\ lastStatus' = [lastStatus EXCEPT ![m] = "requires_action"]
    /\ \E resps \in [1..Len(runs[run[m]].calls) -> SearchResponses] :
         LET r == run[m]
             res == call_required_functions(app, runs[r].calls, resps)
         IN  /\ fetched' = [fetched EXCEPT ![r] = @ \o res.fetches]
             /\ IF res.exc = "none"
                THEN /\ runs' = [runs EXCEPT ![r].status = "queued",
                                             ![r].tool_outputs = res.outputs]
                     /\ resultCount' = Received(resultCount, res.outputs)
                     /\ pc' = [pc EXCEPT ![m] = AfterSubmit]
                     /\ outcome' = outcome
                ELSE /\ pc' = [pc EXCEPT ![m] = "idle"]
                     /\ outcome' = [outcome EXCEPT ![m] = res.exc]
                     /\ UNCHANGED <<runs, resultCount>>
    /\ UNCHANGED <<app, probe, classVars, constructed, cachedAtInit, assistant, thread,
                   run, summary, nAssistants, messages>>

\* A variant that reads the newest message on any status other than
\* requires_action and returns.
WaitOtherExtracts(m) ==
    /\ pc[m] = "waiting"
    /\ runs[run[m]].status \notin {"completed", "requires_action"}
    /\ lastStatus' = [lastStatus EXCEPT ![m] = runs[run[m]].status]
    /\ summary' = [summary EXCEPT ![m] = LatestMessage(messages[thread[m]]).text]
    /\ pc' = [pc EXCEPT ![m] = "idle"]
    /\ UNCHANGED <<app, probe, classVars, constructed, cachedAtInit, assistant, thread,
                   run, outcome, remoteVars, fetched>>

\* One iteration: sleep, retrieve, any other status: nothing is done.
WaitOther(m) ==
    /\ pc[m] = "waiting"
    /\ runs[run[m]].status \notin {"completed", "requires_action"}
    /\ lastStatus' = [lastStatus EXCEPT ![m] = runs[run[m]].status]
    /\ pc' = [pc EXCEPT ![m] = AfterOtherStatus(runs[run[m]].status)]
    /\ UNCHANGED <<app, probe, classVars, constructed, cachedAtInit, assistant, thread,
                   run, summary, outcome, remoteVars, fetched>>

\* ---------------------------------------------- the remote execution service
\* A queued run is picked up; submitted tool outputs are consumed.
RemoteStart(r) ==
    /\ runs[r].status = "queued"
    /\ runs' = [runs EXCEPT ![r].status = "in_progress", ![r].tool_outputs = <<>>]
    /\ UNCHANGED <<app, probe, classVars, mgrVars, nAssistants, messages, resultCount, fetched>>

\* Requires-action cycles opened so far, over the first n runs.
RECURSIVE Cycles(_)
Cycles(n) == IF n = 0 THEN 0 ELSE Cycles(n - 1) + runs[n].cycle

\* The assistant asks for tool calls: a new requires-action cycle.
RemoteRequireAction(r, batch) ==
    /\ runs[r].status = "in_progress"
    /\ Cycles(Len(runs)) < MaxCycles
    /\ LET c == runs[r].cycle + 1
           calls == [i \in 1..Len(batch) |->
                        [id |-> CallId(r, c, i), name |-> batch[i].name,
                         arguments |-> batch[i].arguments]]
           ids == {calls[i].id : i \in 1..Len(batch)}
       IN  /\ runs' = [runs EXCEPT ![r].status = "requires_action",
                                   ![r].cycle = c, ![r].calls = calls]
           /\ resultCount' = [id \in DOMAIN resultCount \cup ids |->
                                IF id \in DOMAIN resultCount THEN resultCount[id] ELSE 0]
    /\ UNCHANGED <<app, probe, classVars, mgrVars, nAssistants, messages, fetched>>

\* The run completes: the assistant's message is the thread's newest.
RemoteComplete(r) ==
    /\ runs[r].status = "in_progress"
    /\ runs' = [runs EXCEPT ![r].status = "completed"]
    /\ messages' = [messages EXCEPT ![runs[r].thread] =
                      <<[role |-> "assistant", text |-> OutputText(r)]>> \o @]
    /\ UNCHANGED <<app, probe, classVars, mgrVars, nAssistants, resultCount, fetched>>

\* The run fails.
RemoteFail(r) ==
    /\ runs[r].status = "in_progress"
    /\ runs' = [runs EXCEPT ![r].status = "failed"]
    /\ UNCHANGED <<app, probe, classVars, mgrVars, nAssistants, messages, resultCount, fetched>>

\* The run is cancelled.
RemoteCancel(r) ==
    /\ runs[r].status = "in_progress"
    /\ runs' = [runs EXCEPT ![r].status = "cancelled"]
    /\ UNCHANGED <<app, probe, classVars, mgrVars, nAssistants, messages, resultCount, fetched>>

\* The run expires while its tool calls wait for their outputs.
RemoteExpire(r) ==
    /\ runs[r].status = "requires_action"
    /\ runs' = [runs EXCEPT ![r].status = "expired"]
    /\ UNCHANGED <<app, probe, classVars, mgrVars, nAssistants, messages, resultCount, fetched>>

\* ------------------------------------------------------------- main()
\* str.strip() on the characters of the input.
Whitespace == {" ", "\t", "\n"}

RECURSIVE StripLeft(_)
StripLeft(cs) == IF cs # <<>> /\ Head(cs) \in Whitespace THEN StripLeft(Tail(cs)) ELSE cs

RECURSIVE StripRight(_)
StripRight(cs) ==
    IF cs # <<>> /\ cs[Len(cs)] \in Whitespace
    THEN StripRight(SubSeq(cs, 1, Len(cs) - 1)) ELSE cs

\* A variant that takes the input as it is.
NoStrip(cs) == cs

Strip(cs) == StripRight(StripLeft(cs))

\* Where a main() has ended: the result shown, the "could not generate" error
\* shown, the empty input rejected, an exception raised out of it, an
\* exception reported by its handler.
Final == {"shown", "no_result", "rejected", "raised", "reported"}

\* Where an exception raised by a call on the manager takes main(): main.py
\* and test.py have no handler; news_sentiment_analyzer.py wraps the calls in
\* try / except Exception and shows the error.
AfterException(a) == IF a = "sentiment" THEN "reported" ELSE "raised"

\* The process is single-threaded: a main() starts when the one before it has
\* ended.
MayBegin(m) ==
    /\ \A o \in Managers \ {m} : step[o] = "start" \/ step[o] \in Final
    /\ m = "m1" \/ step["m1"] # "start"

\* main.py, test.py: manager = AssistantManager() opens main().
\* news_sentiment_analyzer.py: the manager is constructed once the topic has
\* passed validation.
MainConstruct(m) ==
    /\ IF app = "sentiment" THEN step[m] = "construct" ELSE step[m] = "start" /\ MayBegin(m)
    /\ Construct(m)
    /\ step' = [step EXCEPT ![m] = IF app = "sentiment" THEN "create_assistant" ELSE "form"]

\* The form is submitted: if not instructions.strip() rejects the input.
MainSubmit(m, input) ==
    /\ IF app = "sentiment" THEN step[m] = "start" /\ MayBegin(m) ELSE step[m] = "form"
    /\ step' = [step EXCEPT ![m] =
                  IF Strip(input) = <<>> THEN "rejected"
                  ELSE IF app = "sentiment" THEN "construct" ELSE "create_assistant"]
    /\ UNCHANGED <<app, probe, classVars, mgrVars, remoteVars, fetched>>

MainCreateAssistant(m) ==
    /\ step[m] = "create_assistant"
    /\ create_assistant(m)
    /\ step' = [step EXCEPT ![m] = "create_thread"]

MainCreateThread(m) ==
    /\ step[m] = "create_thread"
    /\ create_thread(m)
    /\ step' = [step EXCEPT ![m] = "add_message"]

MainAddMessage(m, topic) ==
    /\ step[m] = "add_message"
    /\ add_message_to_thread(m, topic)
    /\ step' = [step EXCEPT ![m] = "run"]

MainRun(m) ==
    /\ step[m] = "run"
    /\ run_assistant(m)
    /\ step' = [step EXCEPT ![m] = IF outcome'[m] # "ok" THEN AfterException(app)
                                   ELSE "wait"]

MainWait(m) ==
    /\ step[m] = "wait"
    /\ wait_for_run_completion(m)
    /\ step' = [step EXCEPT ![m] = IF pc'[m] = "waiting" THEN "in_wait" ELSE "display"]

\* An iteration of the wait loop inside main(): the loop goes on, returns to
\* main(), or an exception leaves main().
MainWaitStep(m) ==
    /\ step[m] = "in_wait"
    /\ WaitCompleted(m) \/ WaitRequiresAction(m) \/ WaitOther(m)
    /\ step' = [step EXCEPT ![m] = IF outcome'[m] # "ok" THEN AfterException(app)
                                   ELSE IF pc'[m] = "waiting" THEN "in_wait"
                                   ELSE "display"]

\* summary = manager.get_summary(); if summary: ... else: st.error(...)
MainDisplay(m) ==
    /\ step[m] = "display"
    /\ step' = [step EXCEPT ![m] = IF get_summary(m) # NoText THEN "shown" ELSE "no_result"]
    /\ UNCHANGED <<app, probe, classVars, mgrVars, remoteVars, fetched>>

\* A call to the remote service raises a transport error
\* (openai.APIConnectionError) inside the step main() is at: the retrieve of
\* a cached id in __init__, assistants.create, threads.create,
\* messages.create, runs.create, or a call of the wait loop (runs.retrieve,
\* messages.list, submit_tool_outputs).  No method of the manager has a
\* handler, so the exception leaves the method; __init__ is called outside
\* the try of news_sentiment_analyzer.py.
MainTransportError(m) ==
    /\ outcome[m] = "ok"
    /\ \/ /\ IF app = "sentiment" THEN step[m] = "construct"
                                   ELSE step[m] = "start" /\ MayBegin(m)
          /\ m \notin constructed /\ (m = "m1" \/ "m1" \in constructed)
          /\ thread_id # NoId \/ assistant_id # NoId
          /\ step' = [step EXCEPT ![m] = "raised"]
       \/ /\ \/ step[m] = "create_assistant" /\ assistant[m] = NoId
             \/ step[m] = "create_thread" /\ NeedsThread(m)
             \/ step[m] = "add_message" /\ thread[m] # NoId
             \/ step[m] = "run" /\ MayStartRun(m)
             \/ step[m] = "in_wait"
          /\ step' = [step EXCEPT ![m] = AfterException(app)]
    /\ outcome' = [outcome EXCEPT ![m] = "APIConnectionError"]
    /\ pc' = [pc EXCEPT ![m] = "idle"]
    /\ UNCHANGED <<app, probe, classVars, constructed, cachedAtInit, assistant,
                   thread, run, summary, lastStatus, remoteVars, fetched>>

\* ------------------------------------------------------ the specifications
\* The applications: form submissions run main() one after the other.
Next ==
    \/ \E m \in Managers : MainConstruct(m)
    \/ \E m \in Managers, input \in FormInputs : MainSubmit(m, input)
    \/ \E m \in Managers : MainCreateAssistant(m)
    \/ \E m \in Managers : MainCreateThread(m)
    \/ \E m \in Managers, topic \in Topics : MainAddMessage(m, topic)
    \/ \E m \in Managers : MainRun(m)
    \/ \E m \in Managers : MainWait(m)
    \/ \E m \in Managers : MainWaitStep(m)
    \/ \E m \in Managers : MainDisplay(m)
    \/ \E r \in RunIds : RemoteStart(r) /\ UNCHANGED step
    \/ \E r \in RunIds, batch \in Batches(app) : RemoteRequireAction(r, batch) /\ UNCHANGED step
    \/ \E r \in RunIds : RemoteComplete(r) /\ UNCHANGED step
    \/ \E r \in RunIds : RemoteFail(r) /\ UNCHANGED step
    \/ \E r \in RunIds : RemoteCancel(r) /\ UNCHANGED step
    \/ \E r \in RunIds : RemoteExpire(r) /\ UNCHANGED step

Spec == Init /\ [][Next]_vars

\* The managers' methods called in any order, against a remote service whose
\* assistant answers without tool calls (callbacks are resolved inside the
\* wait loop, which Spec covers).
ApiNext ==
    \/ \E m \in Managers : Construct(m) /\ UNCHANGED step
    \/ \E m \in Managers : create_assistant(m) /\ UNCHANGED step
    \/ \E m \in Managers : create_thread(m) /\ UNCHANGED step
    \/ \E m \in Managers, topic \in Topics : add_message_to_thread(m, topic) /\ UNCHANGED step
    \/ \E m \in Managers : run_assistant(m) /\ UNCHANGED step
    \/ \E m \in Managers : process_message(m) /\ UNCHANGED step
    \/ \E m \in Managers : wait_for_run_completion(m) /\ UNCHANGED step
    \/ \E m \in Managers : WaitCompleted(m) /\ UNCHANGED step
    \/ \E m \in Managers : WaitOther(m) /\ UNCHANGED step
    \/ \E r \in RunIds : RemoteStart(r) /\ UNCHANGED step
    \/ \E r \in RunIds : RemoteComplete(r) /\ UNCHANGED step
    \/ \E r \in RunIds : RemoteFail(r) /\ UNCHANGED step

SpecApi == Init /\ [][ApiNext]_vars

\* The applications with a transport that may fail.
FaultNext ==
    \/ Next
    \/ \E m \in Managers : MainTransportError(m)

SpecFaults == Init /\ [][FaultNext]_vars

\* ------------------------------------ callback resolution called directly
\* call_required_functions / call_sentiment_functions(required_actions) is
\* called by the caller with the tool calls of batch: without a run it
\* returns at once; with one it resolves the calls and submits the outputs,
\* which the remote service takes when the run waits for exactly these tool
\* calls and refuses otherwise.
CallRequiredFunctions(m, batch, resps) ==
    /\ Callable(m)
    /\ probe' = [fn |-> "call_required_functions", m |-> m, n |-> Len(batch)]
    /\ IF run[m] = NoId
       THEN UNCHANGED <<fetched, runs, resultCount, outcome>>
       ELSE LET r == run[m]
                calls == [i \in 1..Len(batch) |->
                            [id |-> CallId(r, runs[r].cycle, i), name |-> batch[i].name,
                             arguments |-> batch[i].arguments]]
                res == call_required_functions(app, calls, resps)
                asked == {runs[r].calls[i].id : i \in 1..Len(runs[r].calls)}
                sent == {res.outputs[i].tool_call_id : i \in 1..Len(res.outputs)}
            IN  /\ fetched' = [fetched EXCEPT ![r] = @ \o res.fetches]
                /\ IF res.exc # "none"
                   THEN /\ outcome' = [outcome EXCEPT ![m] = res.exc]
                        /\ UNCHANGED <<runs, resultCount>>
                   ELSE IF runs[r].status = "requires_action" /\ sent = asked
                   THEN /\ runs' = [runs EXCEPT ![r].status = "queued",
                                                ![r].tool_outputs = res.outputs]
                        /\ resultCount' = Received(resultCount, res.outputs)
                        /\ outcome' = outcome
                   ELSE /\ outcome' = [outcome EXCEPT ![m] = "BadRequestError"]
                        /\ UNCHANGED <<runs, resultCount>>
    /\ UNCHANGED <<app, classVars, constructed, cachedAtInit, assistant, thread, run,
                   summary, pc, lastStatus, nAssistants, messages, step>>

\* The batches and the search service's answers callback resolution is
\* called with directly: each single call, and two calls of the known
\* function; articles, or a 200 without the expected keys.
CallBatches(a) ==
    [1..1 -> CallShapes(a)] \cup
    {<<[name |-> KnownFunction(a), arguments |-> [topic |-> "bitcoin"]],
       [name |-> KnownFunction(a), arguments |-> [topic |-> "ai", page_size |-> 3]]>>}

CallResponses == {r \in SearchResponses : r.kind = "http" /\ r.code = 200}

\* The caller uses the methods of one manager up to callback resolution in
\* any order, the remote service starting runs and asking for tool calls.
CallsNext ==
    \/ \E m \in {"m1"} : Construct(m) /\ UNCHANGED step
    \/ \E m \in {"m1"} : create_assistant(m) /\ UNCHANGED step
    \/ \E m \in {"m1"} : create_thread(m) /\ UNCHANGED step
    \/ \E m \in {"m1"}, topic \in Topics : add_message_to_thread(m, topic) /\ UNCHANGED step
    \/ \E m \in {"m1"} : run_assistant(m) /\ UNCHANGED step
    \/ \E m \in {"m1"}, batch \in CallBatches(app) :
          \E resps \in [1..Len(batch) -> CallResponses] :
             CallRequiredFunctions(m, batch, resps)
    \/ \E r \in RunIds : RemoteStart(r) /\ UNCHANGED step
    \/ \E r \in RunIds, batch \in CallBatches(app) :
          RemoteRequireAction(r, batch) /\ UNCHANGED step

SpecCalls == Init /\ [][CallsNext]_vars

\* -------------------------------------------- functions called on their own
\* The page sizes a fetch called on its own is tried with.
PageSizes == {3, DefaultPageSize}

\* The application's fetch is called with a topic (and a page size), the
\* search service answering response.
FetchCall(topic, page_size, response) ==
    /\ probe' = [fn |-> "fetch", topic |-> topic,
                 page_size |-> PageSizeOf(app, [page_size |-> page_size]),
                 response |-> response,
                 result |-> FetchFor(app, [topic |-> topic, page_size |-> page_size],
                                     response)]
    /\ UNCHANGED <<app, classVars, mgrVars, remoteVars, fetched, step>>

\* Callback resolution is applied to the tool calls of a batch, the search
\* service answering resps: what it would submit, the fetches it makes, or
\* the exception it raises.
ResolveCall(batch, resps) ==
    /\ probe' = [fn |-> "resolve", calls |-> WithIds(batch), resps |-> resps,
                 result |-> call_required_functions(app, WithIds(batch), resps)]
    /\ UNCHANGED <<app, classVars, mgrVars, remoteVars, fetched, step>>

FnNext ==
    \/ \E topic \in Topics, page_size \in PageSizes, response \in FetchResponses :
          FetchCall(topic, page_size, response)
    \/ \E batch \in Batches(app) : \E resps \in [1..Len(batch) -> SearchResponses] :
          ResolveCall(batch, resps)

SpecFn == Init /\ [][FnNext]_vars

\* ------------------------------------------ main() of main.py and of test.py
\* What the two scripts differ in: the extra header of each call, the model
\* name, and the instructions the assistant is created with.
Header(a) == IF a = "test" THEN "none" ELSE "OpenAI-Beta: assistants=v2"
Model(a) ==
    IF a = "main" THEN "gpt-3.5-turbo"
    ELSE IF a = "test" THEN "gpt-3.5-turbo-16k" ELSE "gpt-4"
Instructions(a) ==
    IF a = "main" THEN "Get the list of articles/news for the given topic"
    ELSE IF a = "test" THEN "You are a personal article summarizer Assistant ..."
    ELSE "You are an expert sentiment analysis assistant ..."

\* The name the assistant is created with, and the instructions of the run.
AssistantName(a) ==
    IF a = "sentiment" THEN "News Sentiment Analyzer" ELSE "News Summarizer"
RunInstructions(a) ==
    IF a = "sentiment" THEN "Perform comprehensive sentiment analysis"
    ELSE "Summarize the news"

\* The seconds the wait loop sleeps before each retrieve.
PollInterval == 5

\* A variant that sleeps longer before each further retrieve.
SleepBackoff(i) == PollInterval * i

\* time.sleep(5) before the i-th retrieve of the loop.
SleepFor(i) == PollInterval

\* An operation as the script issues it (a call of the remote service, or a
\* sleep): its name, the extra_headers it is called with, and its other
\* arguments.
Op(name, header, payload) == [op |-> name, header |-> header, payload |-> payload]

\* The script and its manager: the manager's fields, the remote operations
\* issued so far, the exception that ended the script, and how it ended.
\* __init__ retrieves the assistant and the session whose ids are cached.
FlowStart(a, cached) ==
    [assistant |-> IF cached THEN AsstId ELSE NoId,
     thread |-> IF cached THEN ThrId ELSE NoId,
     run |-> NoId, summary |-> NoText, exc |-> "none", end |-> "running",
     ops |-> IF cached
             THEN <<Op("assistants.retrieve", "none", [assistant_id |-> AsstId]),
                    Op("threads.retrieve", "none", [thread_id |-> ThrId])>>
             ELSE <<>>]

FlowCreateAssistant(a, s) ==
    IF s.assistant # NoId THEN s
    ELSE [s EXCEPT !.assistant = AsstId,
                   !.ops = Append(@, Op("assistants.create", Header(a),
                                        [name |-> AssistantName(a),
                                         instructions |-> Instructions(a),
                                         tools |-> <<KnownFunction(a)>>,
                                         model |-> Model(a)]))]

FlowCreateThread(a, s) ==
    IF s.thread # NoId THEN s
    ELSE [s EXCEPT !.thread = ThrId,
                   !.ops = Append(@, Op("threads.create", Header(a), <<>>))]

FlowAddMessage(a, s, input) ==
    IF s.thread = NoId THEN s
    ELSE [s EXCEPT !.ops = Append(@, Op("messages.create", Header(a),
                                        [thread_id |-> s.thread, role |-> "user",
                                         content |-> UserContent(a, input)]))]

FlowRun(a, s) ==
    IF s.thread = NoId \/ s.assistant = NoId THEN s
    ELSE [s EXCEPT !.run = RunId,
                   !.ops = Append(@, Op("runs.create", Header(a),
                                        [thread_id |-> s.thread,
                                         assistant_id |-> s.assistant,
                                         instructions |-> RunInstructions(a)]))]

\* process_message on the listing the remote service answers with.
FlowProcessMessage(a, s, listing) ==
    LET listed == [s EXCEPT !.ops = Append(@, Op("messages.list", Header(a),
                                                 [thread_id |-> s.thread]))]
    IN  IF listing = <<>>
        THEN [listed EXCEPT !.exc = "IndexError", !.end = AfterException(a)]
        ELSE [listed EXCEPT !.summary = LatestMessage(listing).text]

\* The wait loop from its i-th retrieve on, the remote service answering
\* events[i] and the search service events[i].resps; the loop still polls
\* when the answers are used up.
RECURSIVE FlowWait(_, _, _, _)
FlowWait(a, s, events, i) ==
    IF i > Len(events) THEN [s EXCEPT !.end = "polling"]
    ELSE
      LET e == events[i]
          got == [s EXCEPT !.ops = @ \o
                     <<Op("time.sleep", "none", [seconds |-> SleepFor(i)]),
                       Op("runs.retrieve", Header(a),
                          [thread_id |-> s.thread, run_id |-> s.run])>>]
      IN  IF e.status = "completed" THEN FlowProcessMessage(a, got, e.listing)
          ELSE IF e.status = "requires_action"
          THEN LET res == call_required_functions(a, e.calls, e.resps)
                   sent == [got EXCEPT !.ops =
                              Append(@, Op("runs.submit_tool_outputs", Header(a),
                                           [thread_id |-> s.thread, run_id |-> s.run,
                                            tool_outputs |-> res.outputs]))]
               IN  IF res.exc # "none"
                   THEN [got EXCEPT !.exc = res.exc, !.end = AfterException(a)]
                   ELSE IF AfterSubmit = "waiting" THEN FlowWait(a, sent, events, i + 1)
                   ELSE sent
          ELSE IF AfterOtherStatus(e.status) = "waiting"
               THEN FlowWait(a, got, events, i + 1)
               ELSE got

\* A variant that enters the loop whatever the manager holds.
FlowWaitUnguarded(a, s, events) == FlowWait(a, s, events, 1)

\* wait_for_run_completion (main.py), wait_for_completion (test.py),
\* wait_for_sentiment_completion: if self.thread and self.run
FlowWaitForCompletion(a, s, events) ==
    IF s.thread = NoId \/ s.run = NoId THEN s ELSE FlowWait(a, s, events, 1)

\* The end of main(): the summary is fetched and displayed, in main.py and
\* test.py with the run steps listed under it; st.error without a summary.
FlowDisplay(a, s) ==
    IF s.end # "running" THEN s
    ELSE IF s.summary = NoText THEN [s EXCEPT !.end = "no_result"]
    ELSE IF a = "sentiment" THEN [s EXCEPT !.end = "shown"]
    ELSE [s EXCEPT !.end = "shown",
                   !.ops = Append(@, Op("runs.steps.list", Header(a),
                                        [thread_id |-> s.thread, run_id |-> s.run]))]

\* main() of script a on a submitted input, the class ids cached by an
\* earlier submission or not, the remote service answering events.
RunMain(a, input, cached, events) ==
    LET s0 == FlowStart(a, cached)
    IN  IF Strip(input) = <<>> THEN [s0 EXCEPT !.end = "rejected"]
        ELSE FlowDisplay(a,
               FlowWaitForCompletion(a,
                 FlowRun(a,
                   FlowAddMessage(a,
                     FlowCreateThread(a, FlowCreateAssistant(a, s0)), input)),
                 events))

\* main() of news_sentiment_analyzer.py: the topic is validated before the
\* manager is constructed, and an exception is reported by the handler.
RunSentimentMain(input, cached, events) ==
    IF Strip(input) = <<>>
    THEN [FlowStart("sentiment", FALSE) EXCEPT !.end = "rejected"]
    ELSE FlowDisplay("sentiment",
           FlowWaitForCompletion("sentiment",
             FlowRun("sentiment",
               FlowAddMessage("sentiment",
                 FlowCreateThread("sentiment",
                   FlowCreateAssistant("sentiment", FlowStart("sentiment", cached))),
                 input)),
             events))

\* The batches script a is driven with: a call of the function it knows, a
\* call of a function it does not dispatch on, two calls of the known
\* function, and a call of the known function followed by an unknown one.
\* main.py and test.py are driven with the same batches.
FlowBatches(a) ==
    LET fn == IF a = "sentiment" THEN "get_news_for_sentiment" ELSE "get_news"
        known == [name |-> fn, arguments |-> [topic |-> "bitcoin"]]
        other == [name |-> fn, arguments |-> [topic |-> "ai", page_size |-> 3]]
        unknown == [name |-> "get_weather", arguments |-> [topic |-> "bitcoin"]]
    IN  {<<known>>, <<unknown>>, <<known, other>>, <<known, unknown>>}

\* The answers of the search service the scripts are driven with: articles,
\* a transport error, and a 200 without the expected keys.
FlowResponses ==
    { Http200([status |-> "ok", totalResults |-> 1,
               articles |-> JList(<<[Article("one") EXCEPT !.author = Null]>>)]),
      [kind |-> "transport"],
      Http200([status |-> "error"]) }

\* The answers to the fetches of a batch: one of FlowResponses for a single
\* call of the known function, articles or the 200 without the keys for each
\* call of it in a batch of two; the answer for an unknown call is never
\* asked for.
FlowAnswers(batch) ==
    {resps \in [1..Len(batch) -> FlowResponses] :
        \A i \in 1..Len(batch) :
            IF batch[i].name = "get_weather" THEN resps[i] = [kind |-> "transport"]
            ELSE Len(batch) = 1 \/ resps[i] # [kind |-> "transport"]}

\* What one retrieve of the wait loop is answered with: a status, for
\* requires_action the tool calls (and the search service's answers to the
\* fetches they cause), for completed the listing of the session's messages.
FlowEvents(a) ==
    {[status |-> "in_progress"]} \cup
    UNION {{[status |-> "requires_action", calls |-> WithIds(batch), resps |-> resps] :
              resps \in FlowAnswers(batch)} : batch \in FlowBatches(a)} \cup
    {[status |-> "completed", listing |-> l] :
        l \in { <<[role |-> "assistant", text |-> OutputText(RunId)],
                  [role |-> "user", text |-> UserContent(a, <<"b", "t", "c">>)]>>,
                <<[role |-> "user", text |-> UserContent(a, <<"b", "t", "c">>)]>> }}

\* The sequences of at most n answers.
RECURSIVE EventSeqs(_, _)
EventSeqs(a, n) ==
    IF n = 0 THEN {<<>>}
    ELSE EventSeqs(a, n - 1) \cup
         {Append(l, e) : l \in {k \in EventSeqs(a, n - 1) : Len(k) = n - 1},
                         e \in FlowEvents(a)}

\* main() of main.py and main() of test.py are run on the same input, the
\* remote service and the search service giving both the same answers.
FlowCall(input, cached, events) ==
    /\ probe = NoCall
    /\ app = "main"
    /\ probe' = [fn |-> "flow", input |-> input, cached |-> cached, events |-> events,
                 main |-> RunMain("main", input, cached, events),
                 test |-> RunMain("test", input, cached, events)]
    /\ UNCHANGED <<app, classVars, mgrVars, remoteVars, fetched, step>>

\* The calls main() makes before it waits.
SetupCalls == {"create_assistant", "create_thread", "add_message", "run"}

\* A manager of script a on which only the calls of made were made, in
\* main()'s order.
ManagerAfter(a, made) ==
    LET s0 == FlowStart(a, FALSE)
        s1 == IF "create_assistant" \in made THEN FlowCreateAssistant(a, s0) ELSE s0
        s2 == IF "create_thread" \in made THEN FlowCreateThread(a, s1) ELSE s1
        s3 == IF "add_message" \in made THEN FlowAddMessage(a, s2, <<"b", "t", "c">>) ELSE s2
    IN  IF "run" \in made THEN FlowRun(a, s3) ELSE s3

\* The end of main() (the wait and the display) on a manager on which only
\* some of the calls before it were made.
WaitAndDisplayCall(a, made, events) ==
    /\ probe = NoCall
    /\ probe' = [fn |-> "wait_and_display", a |-> a, made |-> made, events |-> events,
                 before |-> ManagerAfter(a, made),
                 main |-> FlowDisplay(a, FlowWaitForCompletion(a, ManagerAfter(a, made),
                                                               events))]
    /\ UNCHANGED <<app, classVars, mgrVars, remoteVars, fetched, step>>

\* main() of news_sentiment_analyzer.py is run on an input.
SentimentFlowCall(input, cached, events) ==
    /\ probe = NoCall
    /\ app = "sentiment"
    /\ probe' = [fn |-> "sentiment_flow", input |-> input, cached |-> cached,
                 events |-> events,
                 main |-> RunSentimentMain(input, cached, events)]
    /\ UNCHANGED <<app, classVars, mgrVars, remoteVars, fetched, step>>

\* One run of the scripts per behaviour.
FlowNext ==
    /\ probe = NoCall
    /\ \/ \E input \in FormInputs, cached \in BOOLEAN,
              events \in EventSeqs("main", MaxEvents) :
             FlowCall(input, cached, events)
       \/ \E input \in FormInputs, cached \in BOOLEAN,
              events \in EventSeqs("sentiment", MaxEvents) :
             SentimentFlowCall(input, cached, events)
       \/ \E a \in {"main", "test", "sentiment"}, made \in SUBSET SetupCalls :
             \E events \in EventSeqs(a, 1) : WaitAndDisplayCall(a, made, events)

SpecFlow == Init /\ [][FlowNext]_vars

\* ------------------------------------------------- parse_sentiment_data
\* words of a stored analysis text
MaxPieces == 2

\* str.lower() on the letters A-Z; every other character is left as it is.
UpperToLower ==
    ("A" :> "a") @@ ("B" :> "b") @@ ("C" :> "c") @@ ("D" :> "d") @@
    ("E" :> "e") @@ ("F" :> "f") @@ ("G" :> "g") @@ ("H" :> "h") @@
    ("I" :> "i") @@ ("J" :> "j") @@ ("K" :> "k") @@ ("L" :> "l") @@
    ("M" :> "m") @@ ("N" :> "n") @@ ("O" :> "o") @@ ("P" :> "p") @@
    ("Q" :> "q") @@ ("R" :> "r") @@ ("S" :> "s") @@ ("T" :> "t") @@
    ("U" :> "u") @@ ("V" :> "v") @@ ("W" :> "w") @@ ("X" :> "x") @@
    ("Y" :> "y") @@ ("Z" :> "z")

LowerChar(c) == IF c \in DOMAIN UpperToLower THEN UpperToLower[c] ELSE c
LowerText(cs) == [i \in 1..Len(cs) |-> LowerChar(cs[i])]

\* pat in text: pat is a run of consecutive characters of text.
Contains(text, pat) ==
    \E i \in 0..(Len(text) - Len(pat)) : SubSeq(text, i + 1, i + Len(pat)) = pat

\* The return value None, and a stored analysis text.
NoData == [kind |-> "none"]
Text(cs) == [kind |-> "text", chars |-> cs]

\* "confidence": 85
Confidence == 85

\* A variant that looks for "negative" first.
CategoryNegativeFirst(analysis_text) ==
    IF Contains(analysis_text, <<"n", "e", "g", "a", "t", "i", "v", "e">>) THEN "Negative"
    ELSE IF Contains(analysis_text, <<"p", "o", "s", "i", "t", "i", "v", "e">>) THEN "Positive"
    ELSE "Neutral"

\* The branch of the if/elif/else the lower-cased text takes.
Category(analysis_text) ==
    IF Contains(analysis_text, <<"p", "o", "s", "i", "t", "i", "v", "e">>) THEN "Positive"
    ELSE IF Contains(analysis_text, <<"n", "e", "g", "a", "t", "i", "v", "e">>) THEN "Negative"
    ELSE "Neutral"

\* The score of a branch, in tenths: 0.8 for very / highly, 0.5 for
\* moderately, 0.3 otherwise; 0 for Neutral.
Strength(analysis_text, word) ==
    IF \/ Contains(analysis_text, <<"v", "e", "r", "y", " ">> \o word)
       \/ Contains(analysis_text, <<"h", "i", "g", "h", "l", "y", " ">> \o word)
    THEN 8
    ELSE IF Contains(analysis_text, <<"m", "o", "d", "e", "r", "a", "t", "e", "l", "y", " ">> \o word) THEN 5
    ELSE 3

\* parse_sentiment_data on the stored analysis (None, or a text).
parse_sentiment_data(stored) ==
    IF stored = NoText \/ stored.chars = <<>> THEN NoData
    ELSE LET analysis_text == LowerText(stored.chars)
             category == Category(analysis_text)
         IN  [kind |-> "data",
              score |-> IF category = "Positive"
                        THEN Strength(analysis_text, <<"p", "o", "s", "i", "t", "i", "v", "e">>)
                        ELSE IF category = "Negative"
                        THEN 0 - Strength(analysis_text, <<"n", "e", "g", "a", "t", "i", "v", "e">>)
                        ELSE 0,
              category |-> category,
              confidence |-> Confidence,
              analysis |-> stored]

\* The pieces the analysis texts are made of.
Pieces ==
    { <<"p", "o", "s", "i", "t", "i", "v", "e">>,
      <<"P", "o", "s", "i", "t", "i", "v", "e">>,
      <<"n", "e", "g", "a", "t", "i", "v", "e">>,
      <<"N", "E", "G", "A", "T", "I", "V", "E">>,
      <<"v", "e", "r", "y", " ">>,
      <<"H", "i", "g", "h", "l", "y", " ">>,
      <<"m", "o", "d", "e", "r", "a", "t", "e", "l", "y", " ">>,
      <<"v", "e", "r", "y">>,
      <<"n", "e", "u", "t", "r", "a", "l">>,
      <<"m", "i", "x", "e", "d", " ">> }

\* The texts of at most n pieces.
RECURSIVE Texts(_)
Texts(n) ==
    IF n = 0 THEN {<<>>}
    ELSE Texts(n - 1) \cup {t \o p : t \in Texts(n - 1), p \in Pieces}

\* The values self.sentiment_analysis may hold: None, or a text (the empty
\* one included).
StoredAnalyses == {NoText} \cup {Text(cs) : cs \in Texts(MaxPieces)}

\* parse_sentiment_data is called on a manager that holds stored.
ParseCall(stored) ==
    /\ probe = NoCall
    /\ app = "sentiment"
    /\ probe' = [fn |-> "parse", stored |-> stored, result |-> parse_sentiment_data(stored)]
    /\ UNCHANGED <<app, classVars, mgrVars, remoteVars, fetched, step>>

ParseNext == \E stored \in StoredAnalyses : ParseCall(stored)

SpecParse == Init /\ [][ParseNext]_vars

\* ================================================================ properties
\* The managers that opened their session themselves: constructed before any
\* session was cached, and holding one now.
Openers == {m \in constructed : ~cachedAtInit[m] /\ thread[m] # NoId}

\* C1: opening a session is idempotent.  As long as at most one manager has
\* opened a session without finding one cached, any number of create_thread
\* calls, by it or by managers constructed after the session was cached, have
\* created one remote session at most, and every manager that holds a session
\* holds the cached one.
C1_SessionOpenIdempotent ==
    Cardinality(Openers) <= 1 =>
        /\ nThreads <= 1
        /\ \A m \in constructed : thread[m] # NoId => thread[m] = thread_id

\* C1 happens: a manager constructed after the first one cached its session
\* holds that same session, the only one created.
C1_Witness ==
    /\ constructed = Managers
    /\ ~cachedAtInit["m1"] /\ cachedAtInit["m2"]
    /\ thread["m1"] = 1 /\ thread["m2"] = 1 /\ thread_id = 1
    /\ nThreads = 1
    /\ messages[1] # <<>>

\* C2: first writer wins.  When two managers were both constructed before any
\* session was cached and both have called create_thread, exactly one remote
\* session exists, both hold it, and it is the cached one.
C2_FirstWriterWins ==
    Cardinality(Openers) = 2 =>
        /\ nThreads = 1
        /\ \A m \in Openers : thread[m] = thread_id

\* C3: a failure stops the wait loop.  Once the loop has retrieved the status
\* failed it is no longer polling, an error has been surfaced to the caller,
\* and no output is stored.
C3_FailedStopsLoop ==
    \A m \in Managers :
        lastStatus[m] = "failed" =>
            /\ pc[m] = "idle"
            /\ outcome[m] # "ok"
            /\ summary[m] = NoText

\* The tool calls of run r that name a function the application does not
\* dispatch on.
UnknownCalls(r) ==
    {i \in 1..Len(runs[r].calls) : runs[r].calls[i].name # KnownFunction(app)}

\* The exceptions a fetch can raise out of callback resolution.
FetchErrors == {"KeyError", "TypeError", "AttributeError"}

\* C4: an unknown function aborts the loop.  An iteration that resolves a
\* batch holding a call to a function other than the known one ends the wait
\* loop with an exception, submits nothing and stores no summary; the
\* exception is ValueError as soon as the loop over the calls reaches that
\* call, which it does unless the fetch of an earlier call of the batch has
\* raised already.
C4_UnknownFunctionAborts ==
    [][\A m \in Managers :
         (/\ pc[m] = "waiting"
          /\ runs[run[m]].status = "requires_action"
          /\ UnknownCalls(run[m]) # {}
          /\ WaitRequiresAction(m))
         => LET first == CHOOSE i \in UnknownCalls(run[m]) :
                             \A j \in UnknownCalls(run[m]) : i <= j
            IN  /\ pc'[m] = "idle"
                /\ \/ outcome'[m] = "ValueError"
                   \/ first > 1 /\ outcome'[m] \in FetchErrors
                /\ first = 1 => fetched' = fetched
                /\ runs' = runs
                /\ resultCount' = resultCount
                /\ summary' = summary
                /\ messages' = messages]_vars

\* C4 happens: a main() was left by the ValueError of a batch whose first call
\* names an unknown function; the run still waits for outputs nobody sends,
\* and nothing was stored.
C4_Witness ==
    \E m \in Managers :
        /\ step[m] = "raised"
        /\ outcome[m] = "ValueError"
        /\ runs[run[m]].status = "requires_action"
        /\ 1 \in UnknownCalls(run[m])
        /\ Len(runs[run[m]].calls) = 2
        /\ summary[m] = NoText

\* C5: extraction needs a completed job.  process_message called while the
\* manager's run is in progress or requires action fails with an exception
\* and leaves the stored text as it was.
C5_ExtractionNeedsCompleted ==
    [][\A m \in Managers :
         (/\ run[m] # NoId
          /\ runs[run[m]].status \in {"in_progress", "requires_action"}
          /\ process_message(m))
         => /\ outcome'[m] # "ok"
            /\ summary'[m] = summary[m]]_vars

\* The ids of the tool calls of run r's latest requires-action cycle.
CycleIds(r) == {id \in DOMAIN resultCount : id[1] = r /\ id[2] = runs[r].cycle}

\* C6: every tool call id receives exactly one result.  No id has received
\* two, and an id has received none only while its run is still in the
\* requires-action cycle that issued it (or has expired in it): the run has
\* not resumed past a call without a result.
C6_ExactlyOneResult ==
    \A id \in DOMAIN resultCount :
        /\ resultCount[id] <= 1
        /\ resultCount[id] = 0 =>
              /\ runs[id[1]].status \in {"requires_action", "expired"}
              /\ runs[id[1]].cycle = id[2]

\* C6 happens: a run went through two requires-action cycles, the second one
\* with two calls, completed, and each of its ids received one result.
C6_Witness ==
    \E r \in RunIds :
        /\ runs[r].status = "completed"
        /\ runs[r].cycle = 2
        /\ Len(runs[r].calls) = 2
        /\ \A id \in DOMAIN resultCount : id[1] = r => resultCount[id] = 1

\* C7: one complete batch per cycle.  A run that was resumed by a submission
\* carries outputs for all the calls of the cycle, one per call and in their
\* order, and each of these ids has one result; and when callback resolution
\* ended with an exception nothing was submitted: the run still requires
\* action (or expired) and no id of the cycle has a result.
C7_SingleCompleteBatch ==
    /\ \A r \in RunIds :
          /\ runs[r].tool_outputs # <<>> => runs[r].status = "queued"
          /\ (runs[r].status = "queued" /\ runs[r].cycle > 0) =>
                /\ Len(runs[r].tool_outputs) = Len(runs[r].calls)
                /\ \A i \in 1..Len(runs[r].calls) :
                      runs[r].tool_outputs[i].tool_call_id = runs[r].calls[i].id
                /\ \A id \in CycleIds(r) : resultCount[id] = 1
    /\ \A m \in Managers :
          (outcome[m] # "ok" /\ run[m] # NoId) =>
              /\ runs[run[m]].status \in {"requires_action", "expired"}
              /\ runs[run[m]].tool_outputs = <<>>
              /\ \A id \in CycleIds(run[m]) : resultCount[id] = 0

\* C7 happens: the outputs of a two-call cycle were submitted together and the
\* remote service has not consumed them yet.
C7_Witness ==
    \E r \in RunIds :
        /\ runs[r].status = "queued"
        /\ Len(runs[r].calls) = 2
        /\ Len(runs[r].tool_outputs) = 2
        /\ runs[r].tool_outputs[1].tool_call_id # runs[r].tool_outputs[2].tool_call_id

\* C8: polling resumes after the submission.  After the outputs of a cycle
\* were submitted the manager that submitted them is still in the wait loop;
\* a loop that has retrieved a status other than completed goes on polling
\* unless an exception left it; and a loop that returned to main() has
\* retrieved completed.
C8_PollingResumes ==
    /\ \A r \in RunIds :
          (runs[r].status = "queued" /\ runs[r].cycle > 0) =>
              \E m \in Managers : run[m] = r /\ pc[m] = "waiting"
    /\ \A m \in Managers :
          /\ (lastStatus[m] \notin {"none", "completed"} /\ outcome[m] = "ok") =>
                pc[m] = "waiting"
          /\ step[m] \in {"display", "shown", "no_result"} =>
                lastStatus[m] = "completed"

\* C8 happens: the output of the one known call of a cycle was submitted, the
\* run is pollable again and its manager is still polling.
C8_Witness ==
    \E m \in Managers :
        /\ pc[m] = "waiting"
        /\ lastStatus[m] = "requires_action"
        /\ runs[run[m]].status = "queued"
        /\ Len(runs[run[m]].calls) = 1
        /\ runs[run[m]].calls[1].name = KnownFunction(app)
        /\ Len(runs[run[m]].tool_outputs) = 1

\* The wait loop of m returned normally from a run that asked, in one cycle,
\* for one call of the known function and then completed.
OneCallbackThenCompleted(m) ==
    /\ run[m] # NoId
    /\ pc[m] = "idle"
    /\ outcome[m] = "ok"
    /\ lastStatus[m] = "completed"
    /\ runs[run[m]].cycle = 1
    /\ Len(runs[run[m]].calls) = 1
    /\ runs[run[m]].calls[1].name = KnownFunction(app)

\* C9: end-to-end flow.  When the remote service asked once for the known
\* function with topic t and then reported completed with output text s, the
\* fetch was invoked exactly once, with t, and get_summary returns s.
C9_EndToEnd ==
    \A m \in Managers :
        OneCallbackThenCompleted(m) =>
            /\ Len(fetched[run[m]]) = 1
            /\ fetched[run[m]][1].topic = runs[run[m]].calls[1].arguments["topic"]
            /\ get_summary(m) = OutputText(run[m])

\* C9 happens: the second submission's run, on the session that already holds
\* the first run's messages, asked for one fetch and its output is shown.
C9_Witness ==
    /\ OneCallbackThenCompleted("m2")
    /\ step["m2"] = "shown"
    /\ run["m2"] = 2
    /\ runs[1].thread = runs[2].thread
    /\ runs[1].status = "completed"

\* C10: at most one active job per session.  No session has two runs that
\* have not reached a terminal status.
C10_OneActiveJobPerSession ==
    \A t \in ThreadIds : Cardinality(ActiveRuns(t)) <= 1

\* The fetch was called on its own and the search service answered with a
\* transport error or a status other than 200.
FetchSoftFailure ==
    /\ probe.fn = "fetch"
    /\ \/ probe.response.kind = "transport"
       \/ probe.response.code # 200

FetchGot200 ==
    /\ probe.fn = "fetch"
    /\ probe.response.kind = "http"
    /\ probe.response.code = 200

\* The body of a 200 answer has the expected structure: the three keys, and a
\* list under articles.
ExpectedStructure(body) ==
    /\ {"status", "totalResults", "articles"} \subseteq DOMAIN body
    /\ body["articles"].t = "list"

\* C12: a parse failure degrades softly.  Whenever the body of a 200 answer
\* lacks the expected structure, the fetch returns the empty list and raises
\* nothing.
C12_ParseFailureGivesEmptyList ==
    (FetchGot200 /\ ~ExpectedStructure(probe.response.body)) =>
        probe.result = Ok(<<>>)

\* An item that is complete but for its author or its description, which may
\* be null or absent.
AuthorOrDescriptionMissing(article) ==
    /\ ArticleKeys \ {"author", "description"} \subseteq DOMAIN article
    /\ "publishedAt" \in DOMAIN article
    /\ article["source"].t = "obj" /\ "name" \in DOMAIN article["source"].v
    /\ article["content"].t = "chars"

\* C13: a defective item does not fail or shorten the batch.  For a 200
\* answer of the expected structure with n items, each complete but for an
\* author or a description that is null or absent, the fetch raises nothing
\* and returns n blocks.
C13_DefectiveItemKeepsBatch ==
    (/\ FetchGot200
     /\ ExpectedStructure(probe.response.body)
     /\ \A i \in 1..Len(probe.response.body["articles"].v) :
           AuthorOrDescriptionMissing(probe.response.body["articles"].v[i]))
    => /\ probe.result.exc = "none"
       /\ Len(probe.result.val) = Len(probe.response.body["articles"].v)

\* C14: the wait loop has no retry limit and no timeout.  The loop is left in
\* two ways only: it retrieved completed, or an exception was raised in it.
\* Whatever else the remote service reports, and however often, the manager
\* stays in the loop.
C14_LoopLeftOnlyOnCompleted ==
    [][\A m \in Managers :
         (pc[m] = "waiting" /\ pc'[m] # "waiting") =>
             \/ lastStatus'[m] = "completed"
             \/ outcome'[m] # "ok"]_vars

\* C14 happens: the run expired, a status the remote service never leaves;
\* the loop has retrieved it and the manager is still polling.
C14_Witness ==
    \E m \in Managers :
        /\ pc[m] = "waiting"
        /\ step[m] = "in_wait"
        /\ lastStatus[m] = "expired"
        /\ runs[run[m]].status = "expired"
        /\ outcome[m] = "ok"

\* C15: transport errors do not leave the orchestrator's operations.  No
\* call on a manager ends with the transport error of a remote call as the
\* exception it raised.
C15_TransportErrorsCaught ==
    \A m \in Managers : outcome[m] # "APIConnectionError"

\* The texts of the messages of session t.
TextsOf(t) == {messages[t][i].text : i \in 1..Len(messages[t])}

\* C16: output is never fabricated.  The text a manager has stored is None,
\* or it is the text of a message of its session and the manager's wait loop
\* has retrieved completed for its current run, which is completed.
C16_NoFabricatedOutput ==
    \A m \in Managers :
        summary[m] # NoText =>
            /\ thread[m] # NoId /\ run[m] # NoId
            /\ runs[run[m]].status = "completed"
            /\ lastStatus[m] = "completed"
            /\ summary[m] \in TextsOf(thread[m])

\* C17: the extracted result is a message of the remote side.  The text a
\* manager has stored is None or the output of a run, never a request
\* written by the user.
C17_NeverUserMessage ==
    \A m \in Managers : summary[m] = NoText \/ summary[m].kind = "output"

\* C18: reading the result again is idempotent.  After process_message has
\* read the result of a completed run, the same extraction in the state it
\* left (no message appended since) yields the text that is stored, and the
\* call changed nothing but the stored text.
C18_RereadIdempotent ==
    [][\A m \in Managers :
         (/\ thread[m] # NoId /\ run[m] # NoId
          /\ runs[run[m]].status = "completed"
          /\ process_message(m))
         => /\ ExtractResult(m)' = Ok(summary'[m])
            /\ UNCHANGED <<app, classVars, constructed, cachedAtInit, assistant,
                           thread, run, pc, outcome, lastStatus, remoteVars,
                           fetched, step, probe>>]_vars

\* C18 happens: the caller, not the wait loop, extracted the output of a
\* completed run, and it is stored.
C18_Witness ==
    \E m \in Managers :
        /\ pc[m] = "idle" /\ outcome[m] = "ok"
        /\ run[m] # NoId
        /\ runs[run[m]].status = "completed"
        /\ lastStatus[m] = "none"
        /\ summary[m] = OutputText(run[m])

\* The input is empty or holds white space only.
Blank(input) == \A i \in 1..Len(input) : input[i] \in {" ", "\t", "\n"}

\* C19: a blank topic is rejected before any orchestration.  Submitting an
\* empty or whitespace-only topic ends main() with the inline error, and the
\* step that rejects it creates no assistant and no session, appends no
\* message and starts no run: the remote service, the cached ids and the
\* managers are as they were, and the rejected submission has no run and no
\* result.
C19_BlankTopicRejected ==
    [][\A m \in Managers :
         /\ \A input \in FormInputs :
               (Blank(input) /\ MainSubmit(m, input)) => step'[m] = "rejected"
         /\ (step[m] # "rejected" /\ step'[m] = "rejected") =>
               /\ UNCHANGED <<remoteVars, classVars, mgrVars, fetched>>
               /\ run[m] = NoId /\ summary[m] = NoText
               /\ m \in constructed => (thread[m] = thread_id /\ assistant[m] = assistant_id)]_vars

\* C19 happens: the first submission of the process was rejected, and nothing
\* exists at the remote service.
C19_Witness ==
    /\ step["m1"] = "rejected"
    /\ step["m2"] = "start"
    /\ nAssistants = 0 /\ nThreads = 0 /\ runs = <<>>
    /\ thread_id = NoId /\ assistant_id = NoId

\* An operation without what the claim lets the scripts differ in: the extra
\* header, and the model name and the instructions the assistant is created
\* with.
EraseOp(o) ==
    [op |-> o.op, header |-> "-",
     payload |-> IF o.op = "assistants.create"
                 THEN [o.payload EXCEPT !.model = "-", !.instructions = "-"]
                 ELSE o.payload]

EraseOps(ops) == [i \in 1..Len(ops) |-> EraseOp(ops[i])]

HasUserMessage(listing) == \E i \in 1..Len(listing) : listing[i].role = "user"

\* C22: the order of one form submission.  The step of main() that appends
\* the user message finds the session there and the message is added to it;
\* a job is started only by the step after it, on a session that holds a
\* user message; the wait loop is entered and polls only with a job that was
\* started on the manager's session; the messages are listed (the stored
\* result changes) only by an iteration that has just retrieved completed for
\* that job.
C22_SubmissionOrder ==
    [][\A m \in Managers :
         /\ (step[m] = "add_message" /\ step'[m] = "run") =>
               /\ thread[m] \in ThreadIds
               /\ CountRole(messages'[thread[m]], "user") =
                     CountRole(messages[thread[m]], "user") + 1
         /\ (m \in constructed /\ run'[m] # run[m]) =>
               /\ step[m] = "run"
               /\ run'[m] = Len(runs) + 1 /\ Len(runs') = Len(runs) + 1
               /\ HasUserMessage(messages[thread[m]])
         /\ (pc'[m] = "waiting" \/ lastStatus'[m] # lastStatus[m]) =>
               /\ run[m] \in RunIds
               /\ runs[run[m]].thread = thread[m]
         /\ (m \in constructed /\ summary'[m] # summary[m]) =>
               /\ pc[m] = "waiting"
               /\ lastStatus'[m] = "completed"
               /\ runs[run[m]].status = "completed"]_vars

\* C22 happens: the second submission of the process reused the session of
\* the first, appended its message, started its own job, polled it to
\* completed and shows that job's text.
C22_Witness ==
    /\ step["m2"] = "shown"
    /\ cachedAtInit["m2"]
    /\ thread["m2"] = thread["m1"]
    /\ run["m2"] = 2
    /\ summary["m2"] = OutputText(2)
    /\ CountRole(messages[thread["m2"]], "user") = 2

\* The status a poll retrieves is neither completed nor requires_action.
OtherStatus(m) == runs[run[m]].status \notin {"completed", "requires_action"}

\* C23: another status causes no local action.  An iteration of the wait
\* loop that retrieves queued, in_progress, failed, cancelled or expired
\* makes no fetch, submits nothing and lists no messages: the remote service,
\* the fetches made, the manager's thread, run and stored result, and every
\* other manager are as before, no exception is raised, and the loop goes
\* on to its next poll.
C23_OtherStatusNoAction ==
    [][\A m \in Managers :
         (pc[m] = "waiting" /\ OtherStatus(m) /\ MainWaitStep(m)) =>
             /\ UNCHANGED <<remoteVars, fetched, classVars, thread, run, summary,
                            assistant, outcome>>
             /\ lastStatus'[m] = runs[run[m]].status
             /\ pc'[m] = "waiting"
             /\ step'[m] = "in_wait"]_vars

\* C23 happens: the loop has retrieved cancelled for its run and polls on,
\* with nothing fetched for the run and nothing stored.
C23_Witness ==
    \E m \in Managers :
        /\ pc[m] = "waiting"
        /\ lastStatus[m] = "cancelled"
        /\ runs[run[m]].status = "cancelled"
        /\ fetched[run[m]] = <<>>
        /\ summary[m] = NoText

\* The operations a run of main() has issued.
FlowOps == IF probe.fn \in {"flow", "sentiment_flow"} THEN probe.main.ops ELSE <<>>
TestOps == IF probe.fn = "flow" THEN probe.test.ops ELSE <<>>

\* Every retrieve of the log follows a sleep of PollInterval seconds that
\* itself follows something else than a sleep, and every sleep is of
\* PollInterval seconds and is followed by a retrieve.
OneFixedSleepPerPoll(ops) ==
    \A i \in 1..Len(ops) :
        /\ ops[i].op = "runs.retrieve" =>
              /\ i >= 3
              /\ ops[i - 1].op = "time.sleep"
              /\ ops[i - 1].payload.seconds = 5
              /\ ops[i - 2].op # "time.sleep"
        /\ ops[i].op = "time.sleep" =>
              /\ ops[i].payload.seconds = 5
              /\ i < Len(ops)
              /\ ops[i + 1].op = "runs.retrieve"

\* C24: one fixed sleep before every poll.  In every run of main() of the
\* three scripts, each status retrieval (the first after the job was started
\* and the one after a callback submission included) comes directly after
\* exactly one sleep of 5 seconds, and no sleep has another length.
C24_OneFixedSleepPerPoll ==
    OneFixedSleepPerPoll(FlowOps) /\ OneFixedSleepPerPoll(TestOps)

\* C24 happens: a run polled three times, the first time directly after the
\* job was started and the second directly after a callback submission.
C24_Witness ==
    /\ probe.fn \in {"flow", "sentiment_flow"}
    /\ Cardinality({i \in 1..Len(FlowOps) : FlowOps[i].op = "runs.retrieve"}) = 3
    /\ \E i \in 1..Len(FlowOps) - 2 :
          /\ FlowOps[i].op = "runs.create"
          /\ FlowOps[i + 2].op = "runs.retrieve"
    /\ \E i \in 1..Len(FlowOps) - 2 :
          /\ FlowOps[i].op = "runs.submit_tool_outputs"
          /\ FlowOps[i + 2].op = "runs.retrieve"

\* What a manager holds.
Fields(m) == <<assistant[m], thread[m], run[m], summary[m], pc[m], lastStatus[m], outcome[m]>>

\* C25: the guards make no-ops.  add_message_to_thread without a session
\* sends nothing; run_assistant without a session or without an assistant
\* creates no run and leaves run as None; callback resolution without a run
\* fetches nothing and submits nothing.  Each leaves the remote service, the
\* fetches, the cached ids and every manager's fields as they were.
C25_GuardsAreNoOps ==
    [][\A m \in Managers :
         /\ (thread[m] = NoId /\ \E topic \in Topics : add_message_to_thread(m, topic)) =>
               UNCHANGED <<remoteVars, fetched, classVars, mgrVars>>
         /\ ((thread[m] = NoId \/ assistant[m] = NoId) /\ run_assistant(m)) =>
               /\ UNCHANGED <<remoteVars, fetched, classVars, mgrVars>>
               /\ run'[m] = NoId
         /\ (m \in constructed /\ run[m] = NoId /\ probe'.fn = "call_required_functions"
             /\ probe'.m = m /\ probe' # probe) =>
               UNCHANGED <<remoteVars, fetched, classVars, mgrVars>>]_vars

\* C25 happens: callback resolution was called with two tool calls on a
\* manager that has no session, no assistant and no run; nothing was
\* fetched, and the remote service holds no session and no run.
C25_Witness ==
    /\ probe = [fn |-> "call_required_functions", m |-> "m1", n |-> 2]
    /\ Callable("m1")
    /\ thread["m1"] = NoId /\ assistant["m1"] = NoId /\ run["m1"] = NoId
    /\ runs = <<>> /\ fetched = <<>> /\ messages = <<>>

\* C26: without a session or without a job the wait returns at once.  On a
\* manager that holds no session or no run, the wait neither sleeps nor
\* polls (it issues no operation), the stored result stays None, and main()
\* goes on to show its error instead of a result.
C26_NoJobNoWait ==
    (/\ probe.fn = "wait_and_display"
     /\ probe.before.thread = NoId \/ probe.before.run = NoId)
    => /\ probe.main.ops = probe.before.ops
       /\ probe.main.summary = NoText
       /\ probe.main.exc = "none"
       /\ probe.main.end = "no_result"

\* C26 happens: the manager has a session holding the user's message but no
\* assistant and so no run; the remote service had a completed status to
\* give, and the wait asked for none.
C26_Witness ==
    /\ probe.fn = "wait_and_display"
    /\ probe.made = {"create_thread", "add_message", "run"}
    /\ probe.before.thread # NoId
    /\ probe.before.run = NoId
    /\ probe.events # <<>>
    /\ probe.events[1].status = "completed"
    /\ probe.main.end = "no_result"

\* The batch callback resolution was applied to names the known function in
\* every tool call.
ResolvedKnownCalls ==
    /\ probe.fn = "resolve"
    /\ \A i \in 1..Len(probe.calls) : probe.calls[i].name = KnownFunction(app)

\* What the fetch of tool call i of the batch returned.
FetchOfCall(i) == FetchFor(app, probe.calls[i].arguments, probe.resps[i])

\* The blocks of an output, in order, without the separators between them.
BlocksOf(output) == SelectSeq(output, LAMBDA x : x # [sep |-> "\n"])

\* C27: the submitted batch.  For k tool calls that all name the known
\* function, whenever every fetch returns a list the batch is submitted, and
\* a submitted batch holds exactly k entries in the order of the tool calls:
\* entry i carries the id of tool call i and the blocks fetched for its
\* topic, in order and joined (directly in main.py and test.py, with a
\* newline between two blocks in news_sentiment_analyzer.py); an entry whose
\* fetch soft-failed is there with an empty output.
C27_SubmittedBatch ==
    ResolvedKnownCalls =>
       LET k == Len(probe.calls)
           out == probe.result.outputs
       IN  /\ (\A i \in 1..k : FetchOfCall(i).exc = "none") => probe.result.exc = "none"
           /\ probe.result.exc = "none" =>
                /\ Len(out) = k
                /\ \A i \in 1..k :
                     /\ out[i].tool_call_id = probe.calls[i].id
                     /\ FetchOfCall(i).exc = "none"
                     /\ BlocksOf(out[i].output) = FetchOfCall(i).val
                     /\ Len(out[i].output) =
                           IF app = "sentiment" /\ FetchOfCall(i).val # <<>>
                           THEN 2 * Len(FetchOfCall(i).val) - 1
                           ELSE Len(FetchOfCall(i).val)
                     /\ (probe.resps[i].kind = "transport" \/ probe.resps[i].code # 200)
                           => out[i].output = <<>>

\* C27 happens: a batch of two known calls was resolved, the first fetch
\* soft-failing on a transport error and the second returning two articles;
\* both entries are submitted, the first with an empty output.
C27_Witness ==
    /\ ResolvedKnownCalls
    /\ Len(probe.calls) = 2
    /\ probe.resps[1].kind = "transport"
    /\ probe.result.exc = "none"
    /\ Len(probe.result.outputs) = 2
    /\ probe.result.outputs[1].output = <<>>
    /\ Len(BlocksOf(probe.result.outputs[2].output)) = 2

\* C28: the page size of the sentiment fetch.  In news_sentiment_analyzer.py
\* the fetch made for a tool call is made with the call's topic, with page
\* size 10 when the call has no page_size argument and with the argument's
\* value when it has one; a resolution that ends without exception has made
\* one fetch per tool call.
C28_PageSizeDefaultOrGiven ==
    (probe.fn = "resolve" /\ app = "sentiment") =>
        /\ \A i \in 1..Len(probe.result.fetches) :
             LET arguments == probe.calls[i].arguments
             IN  /\ probe.calls[i].name = "get_news_for_sentiment"
                 /\ probe.result.fetches[i].topic = arguments["topic"]
                 /\ probe.result.fetches[i].page_size =
                       IF "page_size" \in DOMAIN arguments THEN arguments["page_size"]
                       ELSE 10
        /\ probe.result.exc = "none" => Len(probe.result.fetches) = Len(probe.calls)

\* C28 happens: a batch of two calls was resolved, one without a page size,
\* fetched with 10, and one asking for 3, fetched with 3.
C28_Witness ==
    /\ probe.fn = "resolve" /\ app = "sentiment"
    /\ Len(probe.result.fetches) = 2
    /\ \E i, j \in 1..2 :
          /\ "page_size" \notin DOMAIN probe.calls[i].arguments
          /\ probe.result.fetches[i].page_size = 10
          /\ "page_size" \in DOMAIN probe.calls[j].arguments
          /\ probe.calls[j].arguments["page_size"] = 3
          /\ probe.result.fetches[j].page_size = 3

\* The stored text mentions word, whatever the case of its letters.
Mentions(word) ==
    LET cs == probe.stored.chars
    IN  \E i \in 0..(Len(cs) - Len(word)) :
            \A j \in 1..Len(word) : LowerChar(cs[i + j]) = word[j]

\* C29: parse_sentiment_data.  It returns None when no analysis is stored
\* (None, or the empty text); otherwise the category is Positive exactly
\* when the lower-cased text contains "positive", Negative exactly when it
\* contains "negative" and not "positive", Neutral otherwise; the score is
\* positive, negative or zero with the category, the confidence is 85 and
\* the analysis is the stored text.
C29_ParseSentimentData ==
    probe.fn = "parse" =>
       LET positive == Mentions(<<"p", "o", "s", "i", "t", "i", "v", "e">>)
           negative == Mentions(<<"n", "e", "g", "a", "t", "i", "v", "e">>)
           data == probe.result
       IN  IF probe.stored = [kind |-> "none"] \/ probe.stored.chars = <<>>
           THEN data = [kind |-> "none"]
           ELSE /\ data.kind = "data"
                /\ data.category = "Positive" <=> positive
                /\ data.category = "Negative" <=> (negative /\ ~positive)
                /\ data.category = "Neutral" <=> (~negative /\ ~positive)
                /\ data.category = "Positive" => data.score > 0
                /\ data.category = "Negative" => data.score < 0
                /\ data.category = "Neutral" => data.score = 0
                /\ data.confidence = 85
                /\ data.analysis = probe.stored

\* C29 happens: a text that names both "NEGATIVE" and "Positive" was parsed
\* as Positive with a positive score.
C29_Witness ==
    /\ probe.fn = "parse"
    /\ probe.stored = [kind |-> "text", chars |-> <<"N", "E", "G", "A", "T", "I", "V", "E">> \o <<"P", "o", "s", "i", "t", "i", "v", "e">>]
    /\ probe.result.category = "Positive"
    /\ probe.result.score = 3
    /\ probe.result.confidence = 85

====
